---- MODULE Spec2Model ----
(***************************************************************************)
(* OrpheusReader: the text chunker (src/README.md:564-782, the body of     *)
(* src/backend/utils/chunker.js), the audio concatenator                   *)
(* (src/unnamed/part_001, AudioProcessor), and the conversion server with  *)
(* its metadata storage (src/unnamed/part_002).                            *)
(*                                                                         *)
(* A text is a sequence of one-character strings.  Only the character      *)
(* classes the chunker's regular expressions distinguish are represented:  *)
(* "a" (any non-capital, non-punctuation character), "A" ([A-Z]),          *)
(* "." ([.!?]), "'" (["']), " " and "\n" (\s).                             *)
(***************************************************************************)
EXTENDS Integers, Sequences, FiniteSets, TLC

VARIABLES
  text,           \* chunker: the argument of chunk(text)
  maxChunkSize,   \* chunker: the constructor argument
  pc,             \* chunker: "idle", "ready", "done" or "looping"
  result,         \* chunker: the value chunk(text) returned
  audioBuffers,   \* per call: the audioBuffers argument of concatenateBuffers
  call,           \* per call: locals, pending I/O and observed effects
  files,          \* content of the files that exist under tempDir, by path
  tempDirExists,  \* whether tempDir exists
  hasFFmpeg,      \* whether `ffmpeg -version` succeeds in this environment
  now,            \* Date.now()
  conv,           \* per conversion: the POST handler and processConversion
  metadata,       \* content of metadata.json: the status stored per id
  metaTmp,        \* metadata.json.tmp: whether it exists, and its content
  apiKey,         \* whether the provider's API key is configured
  validation,     \* validateAudioBuffer: its argument, position and result
  retry           \* BaseTTSProvider.retry: its arguments, locals and effects

chunkerVars == <<text, maxChunkSize, pc, result>>

audioVars == <<audioBuffers, call, files, tempDirExists, hasFFmpeg, now>>

serverVars == <<conv, metadata, metaTmp, apiKey>>

utilVars == <<validation, retry>>

vars == <<text, maxChunkSize, pc, result,
          audioBuffers, call, files, tempDirExists, hasFFmpeg, now,
          conv, metadata, metaTmp, apiKey, validation, retry>>

----------------------------------------------------------------------------
(* Bounds of the explored inputs. *)

MaxLen == 5

MaxSize == 6

MaxSentLen == 7

MaxParaLen == 9

MaxBufferLen == 102

MaxAttempts == 3

MaxBuffers == 2

MaxClock == 1

(* The concurrently running concatenateBuffers invocations. *)
Calls == {1, 2}

Alphabet == {"a", "A", ".", "'", " ", "\n"}

SentenceAlphabet == {"A", ".", "'", " "}

(* Texts of paragraphs: a letter and the newline, which is also the only  *)
(* whitespace.                                                             *)
ParagraphAlphabet == {"a", "\n"}

Texts(alphabet, n) == UNION {[1..k -> alphabet] : k \in 0..n}

----------------------------------------------------------------------------
(* Character classes and string primitives. *)

IsSpace(c) == c \in {" ", "\n"}

IsPunct(c) == c = "."

IsQuote(c) == c = "'"

IsUpper(c) == c = "A"

SetMin(S) == CHOOSE x \in S : \A y \in S : x <= y

SetMax(S) == CHOOSE x \in S : \A y \in S : x >= y

NonSpaceIdx(s) == {i \in 1..Len(s) : ~IsSpace(s[i])}

(* trimStart() in place of trim(): trailing whitespace is kept. *)
trimStart(s) ==
  IF NonSpaceIdx(s) = {} THEN <<>>
  ELSE SubSeq(s, SetMin(NonSpaceIdx(s)), Len(s))

trim(s) ==
  IF NonSpaceIdx(s) = {} THEN <<>>
  ELSE SubSeq(s, SetMin(NonSpaceIdx(s)), SetMax(NonSpaceIdx(s)))

(* Index just past the maximal whitespace run that starts at q. *)
RunEnd(s, q) ==
  1 + SetMax({j \in (q-1)..Len(s) : \A k \in q..j : IsSpace(s[k])})

(* A regular expression tried at position q (1-based) yields the index     *)
(* just past the matched characters, or 0 when it does not match there.    *)

(* /\n\s*\n/ : \s* is greedy and backtracks to the last newline of the    *)
(* whitespace run.                                                         *)
MatchParagraphBreak(s, q) ==
  LET ends == {j \in (q+1)..Len(s) :
                 s[j] = "\n" /\ \A k \in (q+1)..(j-1) : IsSpace(s[k])}
  IN  IF s[q] = "\n" /\ ends # {} THEN SetMax(ends) + 1 ELSE 0

(* The sentence pattern without its (?=[A-Z]) lookahead. *)
MatchSentenceBreakNoLookahead(s, q) ==
  LET behind == \/ (q > 1 /\ IsPunct(s[q-1]))
                \/ (q > 2 /\ IsQuote(s[q-1]) /\ IsPunct(s[q-2]))
  IN  IF IsSpace(s[q]) /\ behind THEN RunEnd(s, q) ELSE 0

(* /(?<=[.!?])\s+(?=[A-Z])|(?<=[.!?]["'])\s+(?=[A-Z])/ *)
MatchSentenceBreak(s, q) ==
  LET behind == \/ (q > 1 /\ IsPunct(s[q-1]))
                \/ (q > 2 /\ IsQuote(s[q-1]) /\ IsPunct(s[q-2]))
  IN  IF IsSpace(s[q]) /\ behind
         /\ RunEnd(s, q) <= Len(s) /\ IsUpper(s[RunEnd(s, q)])
      THEN RunEnd(s, q) ELSE 0

(* /\s*/ in place of /\s+/ : matches the empty string anywhere. *)
MatchSpacesStar(s, q) == IF IsSpace(s[q]) THEN RunEnd(s, q) ELSE q

(* /\s+/ *)
MatchSpaces(s, q) == IF IsSpace(s[q]) THEN RunEnd(s, q) ELSE 0

MatchAt(kind, s, q) ==
  CASE kind = "paragraph" -> MatchParagraphBreak(s, q)
    [] kind = "sentence"  -> MatchSentenceBreak(s, q)
    [] kind = "word"      -> MatchSpaces(s, q)

(* String.prototype.split(regex) on a non-empty string: p is the start of  *)
(* the current piece, q the position tried next; a failed match, or an     *)
(* empty match at the start of the piece, advances q by one.               *)
RECURSIVE SplitFrom(_, _, _, _)
SplitFrom(kind, s, p, q) ==
  IF q > Len(s) THEN <<SubSeq(s, p, Len(s))>>
  ELSE LET e == MatchAt(kind, s, q)
       IN  IF e = 0 \/ e = p THEN SplitFrom(kind, s, p, q + 1)
           ELSE <<SubSeq(s, p, q - 1)>> \o SplitFrom(kind, s, e, e)

split(kind, s) == SplitFrom(kind, s, 1, 1)

(* .map(p => p.trim()).filter(p => p.length > 0) *)
TrimAll(pieces) == [i \in 1..Len(pieces) |-> trim(pieces[i])]

NonEmpty(pieces) == SelectSeq(pieces, LAMBDA p : Len(p) > 0)

(* Buffer.concat / the chunks written one after another. *)
RECURSIVE Concat(_)
Concat(ss) == IF Len(ss) = 0 THEN <<>> ELSE Head(ss) \o Concat(Tail(ss))

----------------------------------------------------------------------------
(* TextChunker *)

(* Math.floor(maxChunkSize * 0.95).  For the sizes explored the double    *)
(* product has the same floor as the exact one; in every case the value   *)
(* is at most maxChunkSize - 1, and it is 0 for maxChunkSize = 1.         *)
safeChunkSize(m) == (m * 95) \div 100

splitIntoParagraphs(s) == NonEmpty(TrimAll(split("paragraph", s)))

splitIntoSentences(s) == NonEmpty(TrimAll(split("sentence", s)))

(* if (currentChunk.trim().length > 0) chunks.push(currentChunk.trim()) *)
Flush(chunks, currentChunk) ==
  IF Len(trim(currentChunk)) > 0 THEN Append(chunks, trim(currentChunk))
  ELSE chunks

(* The flush without "currentChunk = ''". *)
FlushedBufferKept(currentChunk) == currentChunk

(* ... and the reset of currentChunk that follows the push inside the if *)
FlushedBuffer(currentChunk) ==
  IF Len(trim(currentChunk)) > 0 THEN <<>> ELSE currentChunk

(* The slice loop taking one character too many: slice(i, i + S + 1). *)
RECURSIVE SliceWordOverlap(_, _, _)
SliceWordOverlap(word, i, S) ==
  IF i >= Len(word) THEN <<>>
  ELSE LET last == IF i + S + 1 <= Len(word) THEN i + S + 1 ELSE Len(word)
       IN  <<SubSeq(word, i + 1, last)>> \o SliceWordOverlap(word, i + S, S)

(* for (let i = 0; i < word.length; i += safeChunkSize)                   *)
(*   chunks.push(word.slice(i, i + safeChunkSize))      (i is 0-based)    *)
RECURSIVE SliceWord(_, _, _)
SliceWord(word, i, S) ==
  IF i >= Len(word) THEN <<>>
  ELSE LET last == IF i + S <= Len(word) THEN i + S ELSE Len(word)
       IN  <<SubSeq(word, i + 1, last)>> \o SliceWord(word, i + S, S)

(* The slice loop never advances i when safeChunkSize is 0. *)
SliceLoopDiverges(word, S) == Len(word) > 0 /\ S = 0

WordOverflows(currentChunk, word, S) ==
  Len(currentChunk) + Len(word) + 1 > S

JoinWord(currentChunk, word) ==
  currentChunk \o (IF Len(currentChunk) > 0 THEN <<" ">> ELSE <<>>) \o word

RECURSIVE WordLoop(_, _, _, _, _)
WordLoop(words, i, chunks, currentChunk, S) ==
  IF i > Len(words) THEN Flush(chunks, currentChunk)
  ELSE LET word == words[i]
       IN  IF Len(word) > S
           THEN WordLoop(words, i + 1,
                         Flush(chunks, currentChunk) \o SliceWord(word, 0, S),
                         FlushedBuffer(currentChunk), S)
           ELSE IF WordOverflows(currentChunk, word, S)
           THEN WordLoop(words, i + 1, Flush(chunks, currentChunk), word, S)
           ELSE WordLoop(words, i + 1, chunks, JoinWord(currentChunk, word), S)

chunkByWords(s, S) == WordLoop(split("word", s), 1, <<>>, <<>>, S)

chunkByWordsDiverges(s, S) ==
  LET words == split("word", s)
  IN  \E i \in 1..Len(words) :
        Len(words[i]) > S /\ SliceLoopDiverges(words[i], S)

SentenceOverflows(currentChunk, sentence, S) ==
  Len(currentChunk) + Len(sentence) + 1 > S

JoinSentence(currentChunk, sentence) ==
  currentChunk \o (IF Len(currentChunk) > 0 THEN <<" ">> ELSE <<>>)
              \o sentence

RECURSIVE SentenceLoop(_, _, _, _, _)
SentenceLoop(sentences, i, chunks, currentChunk, S) ==
  IF i > Len(sentences) THEN Flush(chunks, currentChunk)
  ELSE LET sentence == sentences[i]
       IN  IF Len(sentence) > S
           THEN SentenceLoop(sentences, i + 1,
                             Flush(chunks, currentChunk)
                               \o chunkByWords(sentence, S),
                             FlushedBuffer(currentChunk), S)
           ELSE IF SentenceOverflows(currentChunk, sentence, S)
           THEN SentenceLoop(sentences, i + 1, Flush(chunks, currentChunk),
                             sentence, S)
           ELSE SentenceLoop(sentences, i + 1, chunks,
                             JoinSentence(currentChunk, sentence), S)

chunkBySentences(s, S) ==
  SentenceLoop(splitIntoSentences(s), 1, <<>>, <<>>, S)

chunkBySentencesDiverges(s, S) ==
  LET sentences == splitIntoSentences(s)
  IN  \E i \in 1..Len(sentences) :
        Len(sentences[i]) > S /\ chunkByWordsDiverges(sentences[i], S)

(* The paragraph test without the "+ 1" for the separator. *)
ParagraphOverflowsNoSeparator(currentChunk, paragraph, S) ==
  Len(currentChunk) + Len(paragraph) > S

ParagraphOverflows(currentChunk, paragraph, S) ==
  Len(currentChunk) + Len(paragraph) + 1 > S

(* Paragraphs joined by one newline instead of two. *)
JoinParagraphOneNewline(currentChunk, paragraph) ==
  currentChunk \o (IF Len(currentChunk) > 0 THEN <<"\n">> ELSE <<>>)
              \o paragraph

JoinParagraph(currentChunk, paragraph) ==
  currentChunk \o (IF Len(currentChunk) > 0 THEN <<"\n", "\n">> ELSE <<>>)
              \o paragraph

(* The long paragraph pushed as it is, after the flush. *)
EmitLongParagraphWhole(chunks, currentChunk, paragraph, S) ==
  Flush(chunks, currentChunk) \o <<paragraph>>

(* if (currentChunk.trim().length > 0) chunks.push(currentChunk.trim());   *)
(* chunks.push(...this.chunkBySentences(paragraph))                        *)
EmitLongParagraph(chunks, currentChunk, paragraph, S) ==
  Flush(chunks, currentChunk) \o chunkBySentences(paragraph, S)

RECURSIVE ParagraphLoop(_, _, _, _, _)
ParagraphLoop(paragraphs, i, chunks, currentChunk, S) ==
  IF i > Len(paragraphs) THEN Flush(chunks, currentChunk)
  ELSE LET paragraph == paragraphs[i]
       IN  IF Len(paragraph) > S
           THEN ParagraphLoop(paragraphs, i + 1,
                              EmitLongParagraph(chunks, currentChunk,
                                                paragraph, S),
                              FlushedBuffer(currentChunk), S)
           ELSE IF ParagraphOverflows(currentChunk, paragraph, S)
           THEN ParagraphLoop(paragraphs, i + 1, Flush(chunks, currentChunk),
                              paragraph, S)
           ELSE ParagraphLoop(paragraphs, i + 1, chunks,
                              JoinParagraph(currentChunk, paragraph), S)

(* The short text returned without trim(). *)
ShortResultUntrimmed(s) == <<s>>

(* if (text.length <= safeChunkSize) return [text.trim()] *)
ShortResult(s) == <<trim(s)>>

(* The guard without the trim(): only the empty string is blank. *)
IsBlankEmptyOnly(s) == Len(s) = 0

(* if (!text || text.trim().length === 0) *)
IsBlank(s) == Len(s) = 0 \/ Len(trim(s)) = 0

chunk(s, m) ==
  IF IsBlank(s) THEN <<>>
  ELSE IF Len(s) <= safeChunkSize(m) THEN ShortResult(s)
  ELSE NonEmpty(ParagraphLoop(splitIntoParagraphs(s), 1, <<>>, <<>>,
                              safeChunkSize(m)))

chunkDiverges(s, m) ==
  /\ ~IsBlank(s)
  /\ Len(s) > safeChunkSize(m)
  /\ LET paragraphs == splitIntoParagraphs(s)
     IN  \E i \in 1..Len(paragraphs) :
           /\ Len(paragraphs[i]) > safeChunkSize(m)
           /\ chunkBySentencesDiverges(paragraphs[i], safeChunkSize(m))

validateChunks(chunks, m) == \A i \in 1..Len(chunks) : Len(chunks[i]) <= m

----------------------------------------------------------------------------
(* AudioProcessor.  A call of concatenateBuffers is a sequence of steps, one *)
(* per awaited I/O operation: call[c].pc names the operation that is         *)
(* pending, and the step that completes it also runs the synchronous code    *)
(* up to the next await.                                                     *)

(* Buffer k of call c: k bytes, distinct from every other buffer's bytes. *)
Buffer(c, k) == [j \in 1..k |-> 10 * c + k]

(* The arguments tried: a missing list, or a list of 0..MaxBuffers buffers. *)
Inputs(c) ==
  {[given |-> FALSE, list |-> <<>>]} \cup
  {[given |-> TRUE, list |-> [k \in 1..n |-> Buffer(c, k)]] :
     n \in 0..MaxBuffers}

NoPath == [kind |-> "none", i |-> 0, t |-> 0]

(* path.join(this.tempDir, `chunk_${i}_${Date.now()}.mp3`) *)
ChunkPath(i, t) == [kind |-> "chunk", i |-> i, t |-> t]

(* path.join(this.tempDir, `concat_list_${Date.now()}.txt`) *)
ListPath(t) == [kind |-> "list", i |-> 0, t |-> t]

InitCall ==
  [pc |-> "start", i |-> 0, path |-> NoPath, tempFiles |-> <<>>,
   listFile |-> NoPath, failed |-> FALSE, readBufs |-> <<>>,
   outcome |-> "pending", cause |-> "none",
   retval |-> [path |-> "none", fallbackUsed |-> "absent"],
   probes |-> 0, execs |-> 0, mkdirs |-> 0,
   primaryRuns |-> 0, primaryFailed |-> FALSE,
   alternateRuns |-> 0, alternateFailed |-> FALSE,
   usedFallback |-> FALSE, warned |-> FALSE, envFailed |-> FALSE,
   created |-> {}, outWritten |-> FALSE, outData |-> <<>>]

WriteFile(fs, path, content) ==
  [q \in DOMAIN fs \cup {path} |-> IF q = path THEN content ELSE fs[q]]

Unlink(fs, path) == [q \in DOMAIN fs \ {path} |-> fs[q]]

AllExist(fs, paths) == \A k \in 1..Len(paths) : paths[k] \in DOMAIN fs

(* The bytes of the listed files, in list order. *)
BytesOf(fs, paths) == Concat([k \in 1..Len(paths) |-> fs[paths[k]].bytes])

(* if (!audioBuffers) only: an empty list passes the guard. *)
NoBuffersMissingOnly(in) == ~in.given

(* if (!audioBuffers || audioBuffers.length === 0) *)
NoBuffers(in) == ~in.given \/ Len(in.list) = 0

(* The single-buffer shortcut left out. *)
SingleBufferNever(in) == FALSE

(* if (audioBuffers.length === 1) *)
SingleBuffer(in) == Len(in.list) = 1

(* A return value that also tells whether the fallback was used. *)
ReturnValueWithFlag(r) ==
  [path |-> "outputPath",
   fallbackUsed |-> IF r.usedFallback THEN "true" ELSE "false"]

(* return outputPath (@returns {Promise<string>} Path to output file) *)
ReturnValue(r) == [path |-> "outputPath", fallbackUsed |-> "absent"]

(* The event loop runs handlers as long as no handler is stuck in a        *)
(* synchronous loop.                                                       *)
Responsive == \A d \in Calls : conv[d].pc # "looping"

(* throw new Error('No audio buffers provided') *)
ThrowNoBuffers(r) ==
  [r EXCEPT !.pc = "done", !.outcome = "NoAudioBuffers",
            !.cause = "noBuffers"]

(* An exception inside the try of concatenateBuffers:                      *)
(* catch (error) { throw new Error(`Failed to concatenate audio: ...`) }   *)
ThrowFailed(r) == [r EXCEPT !.pc = "done", !.outcome = "FailedToConcatenate"]

(* A file operation of the call fails for a reason outside the program. *)
FileOperationFailed(r) == [r EXCEPT !.cause = "file", !.envFailed = TRUE]

(* The for loop over audioBuffers, then concatenateFiles up to its await. *)
NextTempFile(r, in, t) ==
  IF r.i < Len(in.list)
  THEN [r EXCEPT !.pc = "writeTemp", !.path = ChunkPath(r.i, t)]
  ELSE IF Len(r.tempFiles) = 0
  THEN ThrowFailed([r EXCEPT !.cause = "noInputFiles"])
  ELSE [r EXCEPT !.pc = "probe"]

(* cleanupTempFiles loop, then return outputPath *)
NextCleanup(r) ==
  IF r.i < Len(r.tempFiles) THEN [r EXCEPT !.pc = "cleanup"]
  ELSE [r EXCEPT !.pc = "done", !.outcome = "returned",
                 !.retval = ReturnValue(r)]

(* simpleConcatenate: the read loop, then Buffer.concat and the write *)
NextRead(r) ==
  IF r.i < Len(r.tempFiles) THEN [r EXCEPT !.pc = "readTemp"]
  ELSE [r EXCEPT !.pc = "writeOutput"]

(* concatenateFiles, hasFFmpeg false:                                      *)
(* console.warn('FFmpeg not found. ...'); await this.simpleConcatenate()   *)
ToolMissing(r) ==
  NextRead([r EXCEPT !.probes = @ + 1, !.i = 0, !.readBufs = <<>>,
                     !.usedFallback = TRUE, !.warned = TRUE])

(* The concat demuxer succeeded, yet the catch block runs. *)
PrimaryOkThenAlternate(r, data) ==
  [r EXCEPT !.pc = "alternate", !.execs = @ + 1, !.primaryRuns = @ + 1,
            !.outWritten = TRUE, !.outData = data]

(* await execAsync(command) of the concat demuxer returned *)
PrimaryOk(r, data) ==
  [r EXCEPT !.pc = "unlinkList", !.execs = @ + 1, !.primaryRuns = @ + 1,
            !.failed = FALSE, !.outWritten = TRUE, !.outData = data]

(* ... or threw: catch (error) { build the filter_complex command } *)
PrimaryFailed(r) ==
  [r EXCEPT !.pc = "alternate", !.execs = @ + 1, !.primaryRuns = @ + 1,
            !.primaryFailed = TRUE]

(* await execAsync(command) of filter_complex returned *)
AlternateOk(r, data) ==
  [r EXCEPT !.pc = "unlinkList", !.execs = @ + 1, !.alternateRuns = @ + 1,
            !.failed = FALSE, !.outWritten = TRUE, !.outData = data]

(* The failed retry falling back to byte concatenation. *)
AlternateFailedFallsBack(r) ==
  [r EXCEPT !.pc = "readTemp", !.execs = @ + 1, !.alternateRuns = @ + 1,
            !.alternateFailed = TRUE, !.i = 0, !.readBufs = <<>>,
            !.usedFallback = TRUE]

(* catch (retryError) { throw new Error(`FFmpeg concatenation failed`) }  *)
(* the finally block runs before the error leaves                          *)
AlternateFailed(r) ==
  [r EXCEPT !.pc = "unlinkList", !.execs = @ + 1, !.alternateRuns = @ + 1,
            !.alternateFailed = TRUE, !.failed = TRUE, !.cause = "ffmpeg"]

(* concatenateBuffers up to its first await. *)
EnterConcatenateBuffers(r, in) ==
  IF NoBuffers(in) THEN ThrowNoBuffers(r)
  ELSE IF SingleBuffer(in) THEN [r EXCEPT !.pc = "writeSingle"]
  ELSE [r EXCEPT !.pc = "mkdir", !.mkdirs = @ + 1]

(* A direct call of concatenateBuffers(audioBuffers, outputPath). *)
ConcatenateBuffers(c) ==
  /\ call[c].pc = "start"
  /\ Responsive
  /\ call' = [call EXCEPT ![c] =
       EnterConcatenateBuffers(@, audioBuffers[c])]
  /\ UNCHANGED <<chunkerVars, utilVars, serverVars, audioBuffers, files,
                 tempDirExists, hasFFmpeg, now>>

(* await fs.writeFile(outputPath, audioBuffers[0]); return outputPath     *)
(* (outside the try: a failure leaves as the raw file error)               *)
WriteSingleBuffer(c) ==
  /\ call[c].pc = "writeSingle"
  /\ Responsive
  /\ \/ call' = [call EXCEPT ![c] =
          [@ EXCEPT !.pc = "done", !.outcome = "returned",
                    !.retval = ReturnValue(call[c]),
                    !.outWritten = TRUE,
                    !.outData = audioBuffers[c].list[1]]]
     \/ call' = [call EXCEPT ![c] =
          [FileOperationFailed(@) EXCEPT !.pc = "done",
                                         !.outcome = "WriteFailed"]]
  /\ UNCHANGED <<chunkerVars, utilVars, serverVars, audioBuffers, files,
                 tempDirExists, hasFFmpeg, now>>

(* ensureTempDir: mkdir succeeds, or fails and the error is swallowed. *)
EnsureTempDir(c) ==
  /\ call[c].pc = "mkdir"
  /\ Responsive
  /\ \/ tempDirExists' = TRUE
     \/ ~tempDirExists /\ tempDirExists' = FALSE
  /\ call' = [call EXCEPT ![c] =
       NextTempFile([@ EXCEPT !.i = 0, !.tempFiles = <<>>],
                    audioBuffers[c], now)]
  /\ UNCHANGED <<chunkerVars, utilVars, serverVars, audioBuffers, files,
                 hasFFmpeg, now>>

(* await fs.writeFile(tempFile, audioBuffers[i]); tempFiles.push(tempFile) *)
WriteTempFile(c) ==
  /\ call[c].pc = "writeTemp"
  /\ Responsive
  /\ \/ /\ tempDirExists
        /\ files' = WriteFile(files, call[c].path,
                      [bytes |-> audioBuffers[c].list[call[c].i + 1],
                       manifest |-> <<>>])
        /\ call' = [call EXCEPT ![c] =
             NextTempFile([@ EXCEPT !.tempFiles = Append(@, call[c].path),
                                    !.created = @ \cup {call[c].path},
                                    !.i = @ + 1],
                          audioBuffers[c], now)]
     \/ /\ call' = [call EXCEPT ![c] = ThrowFailed(FileOperationFailed(@))]
        /\ UNCHANGED files
  /\ UNCHANGED <<chunkerVars, utilVars, serverVars, audioBuffers,
                 tempDirExists, hasFFmpeg, now>>

(* concatenateFiles: const hasFFmpeg = await this.checkFFmpeg() *)
CheckFFmpeg(c) ==
  /\ call[c].pc = "probe"
  /\ Responsive
  /\ call' = [call EXCEPT ![c] =
       IF hasFFmpeg
       THEN [@ EXCEPT !.pc = "writeList", !.probes = @ + 1,
                      !.listFile = ListPath(now)]
       ELSE ToolMissing(@)]
  /\ UNCHANGED <<chunkerVars, utilVars, serverVars, audioBuffers, files,
                 tempDirExists, hasFFmpeg, now>>

(* concatenateWithFFmpeg: await fs.writeFile(listFile, listContent),       *)
(* before the try: a failure leaves through the catch of the caller.       *)
WriteListFile(c) ==
  /\ call[c].pc = "writeList"
  /\ Responsive
  /\ \/ /\ tempDirExists
        /\ files' = WriteFile(files, call[c].listFile,
                      [bytes |-> <<>>, manifest |-> call[c].tempFiles])
        /\ call' = [call EXCEPT ![c] =
             [@ EXCEPT !.pc = "primary",
                       !.created = @ \cup {call[c].listFile}]]
     \/ /\ call' = [call EXCEPT ![c] = ThrowFailed(FileOperationFailed(@))]
        /\ UNCHANGED files
  /\ UNCHANGED <<chunkerVars, utilVars, serverVars, audioBuffers,
                 tempDirExists, hasFFmpeg, now>>

(* ffmpeg -f concat -safe 0 -i listFile -c copy -y outputPath *)
FFmpegConcatDemuxer(c) ==
  /\ call[c].pc = "primary"
  /\ Responsive
  /\ \/ /\ call[c].listFile \in DOMAIN files
        /\ Len(files[call[c].listFile].manifest) > 0
        /\ AllExist(files, files[call[c].listFile].manifest)
        /\ call' = [call EXCEPT ![c] =
             PrimaryOk(@, BytesOf(files, files[call[c].listFile].manifest))]
     \/ call' = [call EXCEPT ![c] = PrimaryFailed(@)]
  /\ UNCHANGED <<chunkerVars, utilVars, serverVars, audioBuffers, files,
                 tempDirExists, hasFFmpeg, now>>

(* ffmpeg -i f0 -i f1 ... -filter_complex concat *)
FFmpegFilterComplex(c) ==
  /\ call[c].pc = "alternate"
  /\ Responsive
  /\ \/ /\ AllExist(files, call[c].tempFiles)
        /\ call' = [call EXCEPT ![c] =
             AlternateOk(@, BytesOf(files, call[c].tempFiles))]
     \/ call' = [call EXCEPT ![c] = AlternateFailed(@)]
  /\ UNCHANGED <<chunkerVars, utilVars, serverVars, audioBuffers, files,
                 tempDirExists, hasFFmpeg, now>>

(* finally { try { await fs.unlink(listFile) } catch (e) {} } *)
UnlinkListFile(c) ==
  /\ call[c].pc = "unlinkList"
  /\ Responsive
  /\ files' = Unlink(files, call[c].listFile)
  /\ call' = [call EXCEPT ![c] =
       IF call[c].failed THEN ThrowFailed(@)
       ELSE NextCleanup([@ EXCEPT !.i = 0])]
  /\ UNCHANGED <<chunkerVars, utilVars, serverVars, audioBuffers,
                 tempDirExists, hasFFmpeg, now>>

(* simpleConcatenate: const buffer = await fs.readFile(file) *)
SimpleReadFile(c) ==
  /\ call[c].pc = "readTemp"
  /\ Responsive
  /\ call' = [call EXCEPT ![c] =
       IF call[c].tempFiles[call[c].i + 1] \in DOMAIN files
       THEN NextRead([@ EXCEPT
              !.readBufs =
                 Append(@, files[call[c].tempFiles[call[c].i + 1]].bytes),
              !.i = @ + 1])
       ELSE ThrowFailed([@ EXCEPT !.cause = "fileMissing"])]
  /\ UNCHANGED <<chunkerVars, utilVars, serverVars, audioBuffers, files,
                 tempDirExists, hasFFmpeg, now>>

(* await fs.writeFile(outputPath, Buffer.concat(buffers)) *)
SimpleWriteOutput(c) ==
  /\ call[c].pc = "writeOutput"
  /\ Responsive
  /\ \/ call' = [call EXCEPT ![c] =
          NextCleanup([@ EXCEPT !.outWritten = TRUE,
                                !.outData = Concat(call[c].readBufs),
                                !.i = 0])]
     \/ call' = [call EXCEPT ![c] = ThrowFailed(FileOperationFailed(@))]
  /\ UNCHANGED <<chunkerVars, utilVars, serverVars, audioBuffers, files,
                 tempDirExists, hasFFmpeg, now>>

(* cleanupTempFiles: try { await fs.unlink(file) } catch { warn } *)
CleanupTempFile(c) ==
  /\ call[c].pc = "cleanup"
  /\ Responsive
  /\ files' = Unlink(files, call[c].tempFiles[call[c].i + 1])
  /\ call' = [call EXCEPT ![c] = NextCleanup([@ EXCEPT !.i = @ + 1])]
  /\ UNCHANGED <<chunkerVars, utilVars, serverVars, audioBuffers,
                 tempDirExists, hasFFmpeg, now>>

(* The clock advances by a millisecond. *)
Tick ==
  /\ now < MaxClock
  /\ now' = now + 1
  /\ UNCHANGED <<chunkerVars, utilVars, serverVars, audioBuffers, call,
                 files, tempDirExists, hasFFmpeg>>

(* ---- validateAudioBuffer and BaseTTSProvider.retry: idle state ---- *)

(* validateAudioBuffer has not been called. *)
NoValidation ==
  [pc |-> "idle", buffer |-> [given |-> FALSE, length |-> 0, head |-> "other"],
   result |-> FALSE]

(* retry has not been called. *)
NoRetry ==
  [pc |-> "idle", attempts |-> 0, retryDelay |-> 0, i |-> 0,
   invoked |-> <<>>, waits |-> <<>>,
   lastError |-> [status |-> "undefined", attempt |-> 0],
   outcome |-> "pending", value |-> 0,
   thrown |-> [status |-> "undefined", attempt |-> 0]]

UtilIdle ==
  /\ validation = NoValidation
  /\ retry = NoRetry

(* ---- The conversion server: records and per-conversion state ---- *)

(* { conversions: [] }: the status stored under each id, "none" for an id *)
(* that has no record.                                                     *)
NoRecords == [c \in Calls |-> "none"]

(* A file that was opened for writing and truncated and whose content is  *)
(* not written yet: JSON.parse of it throws.                               *)
Partial == [c \in Calls |-> "partial"]

(* metadata.json.tmp does not exist. *)
NoTmp == [exists |-> FALSE, content |-> NoRecords]

(* jobs.get(conversionId) is undefined. *)
NoJob == [present |-> FALSE, totalChunks |-> 0, currentChunk |-> 0]

(* A conversion for which no request has arrived yet. *)
InitConv ==
  [pc |-> "idle", text |-> <<>>, http |-> 0,
   chunks |-> <<>>, i |-> 0, inflight |-> {}, buffers |-> <<>>,
   job |-> NoJob, op |-> "none", st |-> "none", snap |-> NoRecords,
   fd |-> "none",
   error |-> "none", chunkerCalls |-> 0, ttsCalls |-> 0,
   ttsFailed |-> FALSE, concatCalls |-> 0, concatAfter |-> 0,
   passed |-> <<>>]

ServerIdle ==
  /\ conv = [c \in Calls |-> InitConv]
  /\ metadata = NoRecords
  /\ metaTmp = NoTmp
  /\ apiKey = FALSE

AudioIdle ==
  /\ audioBuffers = [c \in Calls |-> [given |-> FALSE, list |-> <<>>]]
  /\ call = [c \in Calls |-> [InitCall EXCEPT !.pc = "idle"]]
  /\ files = <<>>
  /\ tempDirExists = FALSE
  /\ hasFFmpeg = FALSE
  /\ now = 0

InitAudio ==
  /\ text = <<>> /\ maxChunkSize = 1 /\ pc = "idle" /\ result = <<>>
  /\ ServerIdle
  /\ UtilIdle
  /\ audioBuffers \in [Calls -> UNION {Inputs(c) : c \in Calls}]
  /\ \A c \in Calls : audioBuffers[c] \in Inputs(c)
  /\ call = [c \in Calls |-> InitCall]
  /\ files = <<>>
  /\ tempDirExists \in BOOLEAN
  /\ hasFFmpeg \in BOOLEAN
  /\ now = 0

NextAudio ==
  \/ Tick
  \/ \E c \in Calls :
       \/ ConcatenateBuffers(c)
       \/ WriteSingleBuffer(c)
       \/ EnsureTempDir(c)
       \/ WriteTempFile(c)
       \/ CheckFFmpeg(c)
       \/ WriteListFile(c)
       \/ FFmpegConcatDemuxer(c)
       \/ FFmpegFilterComplex(c)
       \/ UnlinkListFile(c)
       \/ SimpleReadFile(c)
       \/ SimpleWriteOutput(c)
       \/ CleanupTempFile(c)

SpecAudio == InitAudio /\ [][NextAudio]_vars

----------------------------------------------------------------------------
(* validateAudioBuffer (src/unnamed/part_001:239-261).  A buffer is        *)
(* represented by its length and by the signature its first bytes spell,   *)
(* "other" when they spell none of the recognized ones.                    *)

(* return buffer.length > 100 *)
MinAudioSize == 100

Heads == {"fffb", "fff3", "ID3", "RIFF", "other"}

(* The number of leading bytes a signature takes. *)
HeadLen(h) ==
  IF h \in {"fffb", "fff3"} THEN 2
  ELSE IF h = "ID3" THEN 3
  ELSE IF h = "RIFF" THEN 4
  ELSE 0

(* The arguments: undefined, or a buffer of up to n bytes. *)
ValidationInputs(n) ==
  {[given |-> FALSE, length |-> 0, head |-> "other"]} \cup
  {[given |-> TRUE, length |-> k, head |-> h] :
     <<k, h>> \in {p \in (0..n) \X Heads : HeadLen(p[2]) <= p[1]}}

validateAudioBuffer(b) ==
  IF ~b.given \/ b.length = 0 THEN FALSE
  ELSE IF b.head \in {"fffb", "fff3", "ID3"} THEN TRUE
  ELSE IF b.head = "RIFF" THEN TRUE
  ELSE b.length > MinAudioSize

InitValidation ==
  /\ text = <<>> /\ maxChunkSize = 1 /\ pc = "idle" /\ result = <<>>
  /\ AudioIdle
  /\ ServerIdle
  /\ validation \in {[pc |-> "ready", buffer |-> b, result |-> FALSE] :
                       b \in ValidationInputs(MaxBufferLen)}
  /\ retry = NoRetry

(* validateAudioBuffer(buffer) returns. *)
ValidateAudioBuffer ==
  /\ validation.pc = "ready"
  /\ validation' = [validation EXCEPT
       !.pc = "done", !.result = validateAudioBuffer(validation.buffer)]
  /\ UNCHANGED <<chunkerVars, audioVars, serverVars, retry>>

NextValidation == ValidateAudioBuffer

SpecValidation == InitValidation /\ [][NextValidation]_vars

(* ---- BaseTTSProvider.retry ---- *)

(* retryDelay: config.retryDelay || 1000 *)
DefaultRetryDelay == 1000

RetryDelays == {DefaultRetryDelay, 250}

(* What one invocation of fn can do: resolve, or reject with an error      *)
(* that has no status, or with an HTTP status.                             *)
ErrorStatuses == {"none", "401", "403", "500"}

RECURSIVE Pow(_, _)
(* Math.pow(b, e) for a natural exponent *)
Pow(b, e) == IF e = 0 THEN 1 ELSE b * Pow(b, e - 1)

(* retryDelay * Math.pow(2, i) *)
Delay(retryDelay, i) == retryDelay * Pow(2, i)

(* error.status === 401 || error.status === 403 *)
IsAuthError(error) == error.status = "401" \/ error.status = "403"

ShouldWaitAlways(i, attempts) == TRUE

(* i < attempts - 1 *)
ShouldWait(i, attempts) == i < attempts - 1

(* The for loop condition seen with the current i: call fn again, or       *)
(* leave the loop and throw lastError.                                     *)
LoopHead(r) ==
  IF r.i < r.attempts
  THEN [r EXCEPT !.pc = "calling", !.invoked = Append(@, "pending")]
  ELSE [r EXCEPT !.pc = "done", !.outcome = "threw", !.thrown = r.lastError]

InitRetry ==
  /\ text = <<>> /\ maxChunkSize = 1 /\ pc = "idle" /\ result = <<>>
  /\ AudioIdle
  /\ ServerIdle
  /\ validation = NoValidation
  /\ retry \in {[NoRetry EXCEPT !.pc = "ready", !.attempts = n,
                                !.retryDelay = d] :
                  n \in 0..MaxAttempts, d \in RetryDelays}

(* retry(fn, attempts) is called: let i = 0 and the first loop test. *)
Retry ==
  /\ retry.pc = "ready"
  /\ retry' = LoopHead([retry EXCEPT !.i = 0])
  /\ UNCHANGED <<chunkerVars, audioVars, serverVars, validation>>

(* await fn() resolves: return its result. *)
FnResolves ==
  /\ retry.pc = "calling"
  /\ retry' = [retry EXCEPT
       !.pc = "done", !.outcome = "returned",
       !.invoked[Len(retry.invoked)] = "ok",
       !.value = Len(retry.invoked)]
  /\ UNCHANGED <<chunkerVars, audioVars, serverVars, validation>>

(* await fn() rejects: the catch block. *)
FnRejects ==
  /\ retry.pc = "calling"
  /\ \E st \in ErrorStatuses :
       LET error == [status |-> st, attempt |-> Len(retry.invoked)]
           r == [retry EXCEPT !.invoked[Len(retry.invoked)] = st,
                              !.lastError = error]
       IN retry' =
            IF IsAuthError(error)
            THEN [r EXCEPT !.pc = "done", !.outcome = "threw",
                           !.thrown = error]
            ELSE IF ShouldWait(r.i, r.attempts)
            THEN [r EXCEPT !.pc = "waiting",
                           !.waits = Append(@, Delay(r.retryDelay, r.i))]
            ELSE LoopHead([r EXCEPT !.i = @ + 1])
  /\ UNCHANGED <<chunkerVars, audioVars, serverVars, validation>>

(* The setTimeout of the backoff fires: i++ and the next loop test. *)
BackoffElapses ==
  /\ retry.pc = "waiting"
  /\ retry' = LoopHead([retry EXCEPT !.i = @ + 1])
  /\ UNCHANGED <<chunkerVars, audioVars, serverVars, validation>>

NextRetry ==
  \/ Retry
  \/ FnResolves
  \/ FnRejects
  \/ BackoffElapses

SpecRetry == InitRetry /\ [][NextRetry]_vars

----------------------------------------------------------------------------
(* The conversion server (src/unnamed/part_002): ConversionStorage,        *)
(* POST /api/convert and processConversion.  A conversion is identified by *)
(* the id saveConversion gives it; the ids are the elements of Calls, and  *)
(* conversion c uses call c of the concatenator.  Every step runs the      *)
(* handler from the completion of one await to the next await.             *)

(* The request bodies: a blank text, a text of one chunk and one of two. *)
ConvTexts == {<<" ">>, <<"a">>, <<"a", " ", "a">>}

(* parseInt(process.env.MAX_CHUNK_SIZE) || 1000, scaled to the texts. *)
EnvMaxChunkSizes == {1, 3}

(* The audio buffer generateSpeech returns for chunk k of conversion c. *)
Speech(c, k) == Buffer(c, k)

(* catch (error) { await storage.updateConversion(id, {status: 'failed'}) *)
Catch(r, e) ==
  [r EXCEPT !.pc = "storage", !.op = "fail", !.st = "read", !.error = e,
            !.inflight = {}]

(* All TTS calls issued at once. *)
NextTTSAllAtOnce(r) ==
  IF r.i < Len(r.chunks)
  THEN [r EXCEPT !.pc = "tts", !.inflight = (r.i + 1)..Len(r.chunks),
                 !.ttsCalls = Len(r.chunks)]
  ELSE [r EXCEPT !.pc = "concat", !.concatCalls = @ + 1,
                 !.concatAfter = r.ttsCalls, !.passed = r.buffers]

(* for (let i = 0; i < chunks.length; i++) {                               *)
(*   await provider.generateSpeech(chunks[i], ttsOptions) ... }            *)
(* await processor.concatenateBuffers(audioBuffers, audioPath)             *)
NextTTS(r) ==
  IF r.i < Len(r.chunks)
  THEN [r EXCEPT !.pc = "tts", !.inflight = @ \cup {r.i + 1},
                 !.ttsCalls = @ + 1]
  ELSE [r EXCEPT !.pc = "concat", !.concatCalls = @ + 1,
                 !.concatAfter = r.ttsCalls, !.passed = r.buffers]

(* The API key check skipped. *)
StartProcessingNoKeyCheck(r, m, key) ==
  IF chunkDiverges(r.text, m)
  THEN [r EXCEPT !.pc = "looping", !.chunkerCalls = @ + 1]
  ELSE NextTTS([r EXCEPT
         !.chunks = chunk(r.text, m), !.chunkerCalls = @ + 1,
         !.job = [present |-> TRUE, totalChunks |-> Len(chunk(r.text, m)),
                  currentChunk |-> 0],
         !.i = 0, !.buffers = <<>>])

(* processConversion up to its first await: the API key check, the        *)
(* chunker, jobs.set, and the first generateSpeech.                        *)
StartProcessing(r, m, key) ==
  IF ~key THEN Catch(r, "apiKey")
  ELSE IF chunkDiverges(r.text, m)
  THEN [r EXCEPT !.pc = "looping", !.chunkerCalls = @ + 1]
  ELSE NextTTS([r EXCEPT
         !.chunks = chunk(r.text, m), !.chunkerCalls = @ + 1,
         !.job = [present |-> TRUE, totalChunks |-> Len(chunk(r.text, m)),
                  currentChunk |-> 0],
         !.i = 0, !.buffers = <<>>])

(* The values of the status field the server writes. *)
Statuses == {"processing", "completed", "failed"}

(* The status an update writes. *)
TargetStatus(op) ==
  IF op = "save" THEN "processing"
  ELSE IF op = "complete" THEN "completed"
  ELSE "failed"

(* What follows a storage operation that returned (ok) or threw.          *)
(* save: POST calls processConversion, then res.json (never reached when  *)
(*   the chunker does not return); a failure is the 500 response.          *)
(* complete: jobs.delete and return; a failure enters the catch block.    *)
(* fail (in the catch block): jobs.delete, then throw error; the .catch   *)
(*   of POST calls updateConversion(failed) again.  When the update itself *)
(*   threw, jobs.delete is skipped.                                        *)
AfterStorage(r, ok, m, key) ==
  LET q == [r EXCEPT !.snap = NoRecords, !.st = "none"]
  IN IF r.op = "save"
     THEN IF ok
          THEN LET p == StartProcessing(q, m, key)
               IN IF p.pc = "looping" THEN p ELSE [p EXCEPT !.http = 200]
          ELSE [q EXCEPT !.pc = "done", !.http = 500]
     ELSE IF r.op = "complete"
     THEN IF ok THEN [q EXCEPT !.pc = "done", !.job = NoJob]
          ELSE Catch(q, "storage")
     ELSE IF r.op = "fail"
     THEN [q EXCEPT !.pc = "storage", !.op = "failAgain", !.st = "read",
                    !.job = IF ok THEN NoJob ELSE @]
     ELSE [q EXCEPT !.pc = "done"]

(* The call of concatenateBuffers, when the step reached it. *)
EnterConcat(c, r) ==
  IF r.pc = "concat"
  THEN /\ audioBuffers' = [audioBuffers EXCEPT ![c] =
            [given |-> TRUE, list |-> r.buffers]]
       /\ call' = [call EXCEPT ![c] =
            EnterConcatenateBuffers(InitCall,
                                    [given |-> TRUE, list |-> r.buffers])]
  ELSE UNCHANGED <<audioBuffers, call>>

(* POST /api/convert arrives: validation, then saveConversion up to the   *)
(* read of the metadata file.                                              *)
Submit(c) ==
  /\ conv[c].pc = "idle"
  /\ Responsive
  /\ \E t \in ConvTexts :
       conv' = [conv EXCEPT ![c] =
         IF Len(trim(t)) = 0
         THEN [@ EXCEPT !.pc = "done", !.text = t, !.http = 400]
         ELSE [@ EXCEPT !.pc = "storage", !.text = t, !.op = "save",
                        !.st = "read"]]
  /\ UNCHANGED <<chunkerVars, utilVars, audioVars, metadata, metaTmp,
                 apiKey>>

(* readMetadata: try { return JSON.parse(await fs.readFile(...)) }        *)
(* catch { return { conversions: [] } }                                    *)
ReadMetadata(content) == IF content = Partial THEN NoRecords ELSE content

(* Where the file a pending writeFile holds open ends up when the file at *)
(* tempPath is renamed over the metadata file: the open file follows the   *)
(* rename, and the replaced metadata file is gone.                         *)
AfterRename(r) ==
  [r EXCEPT !.fd = IF @ = "tmp" THEN "meta"
                   ELSE IF @ = "meta" THEN "gone" ELSE @]

(* ... and when the file at tempPath is unlinked. *)
AfterUnlink(r) == [r EXCEPT !.fd = IF @ = "tmp" THEN "gone" ELSE @]

(* const metadata = await this.readMetadata(), then the change in memory: *)
(* push for save; findIndex, throw 'Conversion not found' or merge for     *)
(* update; then writeMetadata up to its writeFile.                         *)
StorageRead(c) ==
  /\ conv[c].pc = "storage" /\ conv[c].st = "read"
  /\ Responsive
  /\ LET read == ReadMetadata(metadata)
         r == IF conv[c].op # "save" /\ read[c] = "none"
              THEN AfterStorage(conv[c], FALSE, maxChunkSize, apiKey)
              ELSE [conv[c] EXCEPT
                      !.st = "writeTmp",
                      !.snap = [read EXCEPT
                                  ![c] = TargetStatus(conv[c].op)]]
     IN /\ conv' = [conv EXCEPT ![c] = r]
        /\ EnterConcat(c, r)
  /\ UNCHANGED <<chunkerVars, utilVars, files, tempDirExists, hasFFmpeg,
                 now, metadata, metaTmp, apiKey>>

(* fs.writeFile(tempPath, ...) opens the file: created if missing,        *)
(* truncated if it exists (flag 'w'); the data is not written yet.         *)
StorageOpenTmp(c) ==
  /\ conv[c].pc = "storage" /\ conv[c].st = "writeTmp"
  /\ Responsive
  /\ metaTmp' = [exists |-> TRUE, content |-> Partial]
  /\ conv' = [conv EXCEPT ![c] = [@ EXCEPT !.st = "writing", !.fd = "tmp"]]
  /\ UNCHANGED <<chunkerVars, utilVars, audioVars, metadata, apiKey>>

(* await fs.writeFile(tempPath, JSON.stringify(metadata)) returns: the    *)
(* data is in the file that was opened, wherever that file is by now.      *)
StorageWriteTmp(c) ==
  /\ conv[c].pc = "storage" /\ conv[c].st = "writing"
  /\ Responsive
  /\ metaTmp' = IF conv[c].fd = "tmp"
                THEN [exists |-> TRUE, content |-> conv[c].snap]
                ELSE metaTmp
  /\ metadata' = IF conv[c].fd = "meta" THEN conv[c].snap ELSE metadata
  /\ conv' = [conv EXCEPT ![c] = [@ EXCEPT !.st = "rename", !.fd = "none"]]
  /\ UNCHANGED <<chunkerVars, utilVars, audioVars, apiKey>>

(* await fs.rename(tempPath, this.metadataPath): the file at tempPath,    *)
(* whoever wrote it last, becomes the metadata file; with no file at      *)
(* tempPath the rename throws and the catch block starts its unlink.      *)
StorageRename(c) ==
  /\ conv[c].pc = "storage" /\ conv[c].st = "rename"
  /\ Responsive
  /\ IF metaTmp.exists
     THEN LET r == AfterStorage(conv[c], TRUE, maxChunkSize, apiKey)
          IN /\ metadata' = metaTmp.content
             /\ metaTmp' = NoTmp
             /\ conv' = [d \in Calls |->
                  IF d = c THEN r ELSE AfterRename(conv[d])]
             /\ EnterConcat(c, r)
     ELSE /\ conv' = [conv EXCEPT ![c] = [@ EXCEPT !.st = "unlinkTmp"]]
          /\ UNCHANGED <<metadata, metaTmp, audioBuffers, call>>
  /\ UNCHANGED <<chunkerVars, utilVars, files, tempDirExists, hasFFmpeg,
                 now, apiKey>>

(* catch: try { await fs.unlink(tempPath) } catch {};                     *)
(* throw new Error('Failed to write metadata')                             *)
StorageUnlinkTmp(c) ==
  /\ conv[c].pc = "storage" /\ conv[c].st = "unlinkTmp"
  /\ Responsive
  /\ metaTmp' = NoTmp
  /\ LET r == AfterStorage(conv[c], FALSE, maxChunkSize, apiKey)
     IN /\ conv' = [d \in Calls |->
             IF d = c THEN r ELSE AfterUnlink(conv[d])]
        /\ EnterConcat(c, r)
  /\ UNCHANGED <<chunkerVars, utilVars, files, tempDirExists, hasFFmpeg,
                 now, metadata, apiKey>>

(* await provider.generateSpeech(chunks[i]) returns: push, jobs.set, and  *)
(* the loop goes on to the next generateSpeech or to concatenateBuffers.   *)
TTSReturns(c) ==
  /\ conv[c].pc = "tts"
  /\ Responsive
  /\ \E k \in conv[c].inflight :
       LET r == NextTTS([conv[c] EXCEPT
                  !.inflight = @ \ {k},
                  !.buffers = Append(@, Speech(c, k)),
                  !.i = @ + 1,
                  !.job = [@ EXCEPT !.currentChunk = conv[c].i + 1]])
       IN /\ conv' = [conv EXCEPT ![c] = r]
          /\ EnterConcat(c, r)
  /\ UNCHANGED <<chunkerVars, utilVars, files, tempDirExists, hasFFmpeg,
                 now, metadata, metaTmp, apiKey>>

(* await provider.generateSpeech(chunks[i]) throws: the catch block. *)
TTSFails(c) ==
  /\ conv[c].pc = "tts"
  /\ Responsive
  /\ conv[c].inflight # {}
  /\ conv' = [conv EXCEPT ![c] = Catch([@ EXCEPT !.ttsFailed = TRUE], "tts")]
  /\ UNCHANGED <<chunkerVars, utilVars, audioVars, metadata, metaTmp,
                 apiKey>>

(* await processor.concatenateBuffers(...) settles: on return, getDuration *)
(* up to its await; on error, the catch block.  The locals of the call are *)
(* gone.                                                                   *)
ConcatSettles(c) ==
  /\ conv[c].pc = "concat" /\ call[c].pc = "done"
  /\ Responsive
  /\ conv' = [conv EXCEPT ![c] =
       IF call[c].outcome = "returned" THEN [@ EXCEPT !.pc = "duration"]
       ELSE Catch(@, "concat")]
  /\ call' = [call EXCEPT ![c] = [InitCall EXCEPT !.pc = "idle"]]
  /\ audioBuffers' = [audioBuffers EXCEPT ![c] =
       [given |-> FALSE, list |-> <<>>]]
  /\ UNCHANGED <<chunkerVars, utilVars, files, tempDirExists, hasFFmpeg,
                 now, metadata, metaTmp, apiKey>>

(* await processor.getDuration(audioPath) returns (from ffprobe, or from  *)
(* the size of the file); updateConversion(completed) up to its read.     *)
GetDuration(c) ==
  /\ conv[c].pc = "duration"
  /\ Responsive
  /\ conv' = [conv EXCEPT ![c] =
       [@ EXCEPT !.pc = "storage", !.op = "complete", !.st = "read"]]
  /\ UNCHANGED <<chunkerVars, utilVars, audioVars, metadata, metaTmp,
                 apiKey>>

(* The server is up: storage initialized with no conversions, no request  *)
(* received yet.                                                           *)
InitConversion ==
  /\ text = <<>> /\ pc = "idle" /\ result = <<>>
  /\ maxChunkSize \in EnvMaxChunkSizes
  /\ audioBuffers = [c \in Calls |-> [given |-> FALSE, list |-> <<>>]]
  /\ call = [c \in Calls |-> [InitCall EXCEPT !.pc = "idle"]]
  /\ files = <<>>
  /\ tempDirExists = FALSE
  /\ hasFFmpeg \in BOOLEAN
  /\ now = 0
  /\ conv = [c \in Calls |-> InitConv]
  /\ metadata = NoRecords
  /\ metaTmp = NoTmp
  /\ apiKey \in BOOLEAN
  /\ UtilIdle

NextConversion ==
  \/ Tick
  \/ \E c \in Calls :
       \/ Submit(c)
       \/ StorageRead(c)
       \/ StorageOpenTmp(c)
       \/ StorageWriteTmp(c)
       \/ StorageRename(c)
       \/ StorageUnlinkTmp(c)
       \/ TTSReturns(c)
       \/ TTSFails(c)
       \/ WriteSingleBuffer(c)
       \/ EnsureTempDir(c)
       \/ WriteTempFile(c)
       \/ CheckFFmpeg(c)
       \/ WriteListFile(c)
       \/ FFmpegConcatDemuxer(c)
       \/ FFmpegFilterComplex(c)
       \/ UnlinkListFile(c)
       \/ SimpleReadFile(c)
       \/ SimpleWriteOutput(c)
       \/ CleanupTempFile(c)
       \/ ConcatSettles(c)
       \/ GetDuration(c)

SpecConversion == InitConversion /\ [][NextConversion]_vars

(* Every pending callback of the event loop eventually runs: each TTS      *)
(* call, tool invocation and file operation returns or fails.              *)
SpecConversionFair == SpecConversion /\ WF_vars(NextConversion)

----------------------------------------------------------------------------
(* The chunker as a state machine: one call of chunk(text). *)

InitChunker ==
  /\ text \in Texts(Alphabet, MaxLen)
  /\ maxChunkSize \in 1..MaxSize
  /\ pc = "ready"
  /\ result = <<>>
  /\ AudioIdle
  /\ ServerIdle
  /\ UtilIdle

InitSentences ==
  /\ text \in Texts(SentenceAlphabet, MaxSentLen)
  /\ maxChunkSize \in 1..MaxSize
  /\ pc = "ready"
  /\ result = <<>>
  /\ AudioIdle
  /\ ServerIdle
  /\ UtilIdle

InitParagraphs ==
  /\ text \in Texts(ParagraphAlphabet, MaxParaLen)
  /\ maxChunkSize \in 1..MaxSize
  /\ pc = "ready"
  /\ result = <<>>
  /\ AudioIdle
  /\ ServerIdle
  /\ UtilIdle

(* chunk(text) returns. *)
Chunk ==
  /\ pc = "ready"
  /\ ~chunkDiverges(text, maxChunkSize)
  /\ result' = chunk(text, maxChunkSize)
  /\ pc' = "done"
  /\ UNCHANGED <<text, maxChunkSize>>
  /\ UNCHANGED <<audioVars, serverVars, utilVars>>

(* chunk(text) enters the slice loop that never ends. *)
ChunkLoopsForever ==
  /\ pc = "ready"
  /\ chunkDiverges(text, maxChunkSize)
  /\ pc' = "looping"
  /\ UNCHANGED <<text, maxChunkSize, result>>
  /\ UNCHANGED <<audioVars, serverVars, utilVars>>

NextChunker == Chunk \/ ChunkLoopsForever

SpecChunker == InitChunker /\ [][NextChunker]_vars

SpecSentences == InitSentences /\ [][NextChunker]_vars

SpecParagraphs == InitParagraphs /\ [][NextChunker]_vars

----------------------------------------------------------------------------
(* Vocabulary of the properties, defined on the text itself and not through *)
(* the chunker's own splitting code.                                        *)

S == safeChunkSize(maxChunkSize)

Range(f) == {f[i] : i \in DOMAIN f}

RECURSIVE JoinWith(_, _)
JoinWith(pieces, sep) ==
  IF Len(pieces) = 0 THEN <<>>
  ELSE IF Len(pieces) = 1 THEN pieces[1]
  ELSE pieces[1] \o sep \o JoinWith(Tail(pieces), sep)

StripSpace(s) == SelectSeq(s, LAMBDA c : ~IsSpace(c))

(* Maximal runs of whitespace, as <<first, last>> index pairs. *)
WhitespaceRuns(s) ==
  {r \in (1..Len(s)) \X (1..Len(s)) :
     /\ r[1] <= r[2]
     /\ \A k \in r[1]..r[2] : IsSpace(s[k])
     /\ (r[1] = 1 \/ ~IsSpace(s[r[1] - 1]))
     /\ (r[2] = Len(s) \/ ~IsSpace(s[r[2] + 1]))}

(* The trimmed, non-empty pieces of s between the given separator runs. *)
PiecesBetween(s, gaps) ==
  LET starts == {1} \cup {g[2] + 1 : g \in gaps}
      EndOf(st) == LET later == {g[1] : g \in {h \in gaps : h[1] >= st}}
                   IN  IF later = {} THEN Len(s) ELSE SetMin(later) - 1
      Nth(k) == CHOOSE st \in starts : Cardinality({t \in starts : t <= st}) = k
  IN  NonEmpty([k \in 1..Cardinality(starts) |->
                  trim(SubSeq(s, Nth(k), EndOf(Nth(k))))])

(* Whitespace-delimited words. *)
WordsOf(s) == PiecesBetween(s, WhitespaceRuns(s))

(* Paragraphs: separated by whitespace holding a blank line (two newlines *)
(* with only whitespace between them).                                     *)
ParagraphsOf(s) ==
  PiecesBetween(s, {r \in WhitespaceRuns(s) :
                      Cardinality({k \in r[1]..r[2] : s[k] = "\n"}) >= 2})

(* Sentences: separated by whitespace that follows '.', '!' or '?' (and,   *)
(* when afterQuote, also such a mark followed by a quote character) and    *)
(* precedes a capital letter.                                              *)
SentencesOf(s, afterQuote) ==
  PiecesBetween(s, {r \in WhitespaceRuns(s) :
     /\ r[1] > 1 /\ r[2] < Len(s)
     /\ IsUpper(s[r[2] + 1])
     /\ \/ IsPunct(s[r[1] - 1])
        \/ (afterQuote /\ r[1] > 2 /\ IsQuote(s[r[1] - 1])
                       /\ IsPunct(s[r[1] - 2]))})

(* Every chunk is whole consecutive units of Units(text) joined by sep. *)
WholeUnits(Units(_), sep) ==
  /\ Concat([i \in 1..Len(result) |-> Units(result[i])]) = Units(trim(text))
  /\ \A i \in 1..Len(result) : result[i] = JoinWith(Units(result[i]), sep)

----------------------------------------------------------------------------
(* C1: every chunk returned by chunk(text), for a non-empty text and a      *)
(* positive maxChunkSize, has length <= maxChunkSize (validateChunks).      *)
C1_ChunksWithinMaxChunkSize ==
  (pc = "done" /\ Len(text) > 0) => validateChunks(result, maxChunkSize)

(* A paragraph-joined chunk of exactly maxChunkSize (= safeChunkSize + 1). *)
C1_Witness ==
  /\ pc = "done" /\ Len(text) > S
  /\ \E i \in 1..Len(result) : Len(result[i]) = maxChunkSize

(* C2: chunk(text) terminates and returns for every text and every         *)
(* positive maxChunkSize, also where safeChunkSize is 0.                   *)
C2_ChunkAlwaysReturns == pc # "looping"

(* C3: the chunks concatenated in order, whitespace deleted, are the input  *)
(* with whitespace deleted.                                                 *)
C3_NonWhitespacePreserved ==
  pc = "done" => StripSpace(Concat(result)) = StripSpace(text)

C3_Witness ==
  /\ pc = "done" /\ Len(result) >= 2
  /\ Len(StripSpace(text)) < Len(text)
  /\ \E w \in Range(WordsOf(text)) : Len(w) > S

(* C4: a text that is not whitespace-only and no longer than safeChunkSize  *)
(* yields exactly one chunk, the trimmed input.                            *)
C4_ShortTextSingleTrimmedChunk ==
  (pc = "done" /\ Len(StripSpace(text)) > 0 /\ Len(text) <= S)
    => /\ Len(result) = 1
       /\ Len(result[1]) > 0
       /\ ~IsSpace(result[1][1]) /\ ~IsSpace(result[1][Len(result[1])])
       /\ \E a, b \in 0..Len(text) :
            /\ result[1] = SubSeq(text, a + 1, Len(text) - b)
            /\ \A i \in 1..a : IsSpace(text[i])
            /\ \A i \in (Len(text) - b + 1)..Len(text) : IsSpace(text[i])

C4_Witness ==
  /\ pc = "done" /\ Len(text) <= S
  /\ Len(text) >= 3 /\ IsSpace(text[1]) /\ IsSpace(text[Len(text)])
  /\ Len(result) = 1 /\ Len(result[1]) > 0

(* C5: chunk(text) is the empty sequence for an empty or whitespace-only    *)
(* text and has at least one chunk for any other text.                      *)
C5_EmptyIffBlank ==
  pc = "done" => (Len(result) = 0 <=> Len(StripSpace(text)) = 0)

C5_Witness ==
  /\ pc = "done" /\ Len(text) > 0 /\ Len(StripSpace(text)) = 0
  /\ Len(text) <= S /\ result = <<>>

(* C6: provided no whitespace-delimited word is longer than safeChunkSize,  *)
(* every word of the input is whole inside exactly one chunk: the words of  *)
(* the chunks, in order, are the words of the text.                         *)
C6_WordsNeverTruncated ==
  (pc = "done" /\ \A w \in Range(WordsOf(text)) : Len(w) <= S)
    => Concat([i \in 1..Len(result) |-> WordsOf(result[i])]) = WordsOf(text)

(* A sentence split by words into two chunks, one of them of two words. *)
C6_Witness ==
  /\ pc = "done" /\ \A w \in Range(WordsOf(text)) : Len(w) <= S
  /\ Len(ParagraphsOf(text)) = 1 /\ Len(SentencesOf(text, TRUE)) = 1
  /\ Len(result) >= 2
  /\ \E i \in 1..Len(result) : Len(WordsOf(result[i])) >= 2

(* C7 as stated: with sentences delimited by '.', '!' or '?' followed by    *)
(* whitespace and a capital letter, a paragraph longer than safeChunkSize   *)
(* whose sentences all fit is emitted as whole consecutive sentences        *)
(* joined by single spaces.                                                 *)
C7_WholeSentencesAsStated ==
  (/\ pc = "done" /\ Len(trim(text)) > S
   /\ \A x \in Range(SentencesOf(trim(text), FALSE)) : Len(x) <= S)
    => WholeUnits(LAMBDA u : SentencesOf(u, FALSE), <<" ">>)

(* C7 amended: the same with the sentence boundaries the splitter uses,     *)
(* which also follow a '.', '!' or '?' that is closed by a quote character. *)
C7_WholeSentences ==
  (/\ pc = "done" /\ Len(trim(text)) > S
   /\ \A x \in Range(SentencesOf(trim(text), TRUE)) : Len(x) <= S)
    => WholeUnits(LAMBDA u : SentencesOf(u, TRUE), <<" ">>)

(* Two chunks, one of two sentences, with a boundary after a closing quote. *)
C7_Witness ==
  /\ pc = "done" /\ Len(trim(text)) > S
  /\ \A x \in Range(SentencesOf(trim(text), TRUE)) : Len(x) <= S
  /\ SentencesOf(trim(text), TRUE) # SentencesOf(trim(text), FALSE)
  /\ Len(result) >= 2
  /\ \E i \in 1..Len(result) : Len(SentencesOf(result[i], TRUE)) >= 2

(* C8: when the text is longer than safeChunkSize and every paragraph fits, *)
(* every chunk is whole consecutive paragraphs joined by two newlines.      *)
C8_WholeParagraphs ==
  (/\ pc = "done" /\ Len(text) > S
   /\ \A x \in Range(ParagraphsOf(text)) : Len(x) <= S)
    => WholeUnits(ParagraphsOf, <<"\n", "\n">>)

(* A chunk of two paragraphs whose separator was rewritten. *)
C8_Witness ==
  /\ pc = "done" /\ Len(text) > S
  /\ \A x \in Range(ParagraphsOf(text)) : Len(x) <= S
  /\ \E i \in 1..Len(result) :
       Len(ParagraphsOf(result[i])) >= 2 /\ result[i] # trim(text)

(* C9: a word longer than safeChunkSize is emitted as consecutive chunks    *)
(* that are each exactly safeChunkSize long except possibly the last (1 to  *)
(* safeChunkSize characters) and that concatenate to the word.              *)
C9_LongWordSlicedExactly ==
  pc = "done" =>
    \A w \in Range(WordsOf(text)) :
      Len(w) > S =>
        \E j \in 0..Len(result), n \in 1..Len(result) :
          /\ j + n <= Len(result)
          /\ \A k \in 1..(n - 1) : Len(result[j + k]) = S
          /\ Len(result[j + n]) \in 1..S
          /\ Concat(SubSeq(result, j + 1, j + n)) = w

(* A long word cut into full pieces and a shorter last piece. *)
C9_Witness ==
  /\ pc = "done" /\ S >= 2
  /\ \E w \in Range(WordsOf(text)) : Len(w) > 2 * S /\ Len(w) % S # 0

(* C10: concatenateBuffers with zero buffers (empty or missing list) fails  *)
(* with the no-input error and has no side effect: no output written, no    *)
(* transient file or directory created, the tool neither probed nor         *)
(* invoked, nothing retried.                                                *)
C10_NoBuffersNoSideEffects ==
  \A c \in Calls :
    (/\ ~audioBuffers[c].given \/ Len(audioBuffers[c].list) = 0
     /\ call[c].pc \notin {"idle", "start"})
      => /\ call[c].pc = "done"
         /\ call[c].outcome = "NoAudioBuffers"
         /\ ~call[c].outWritten
         /\ call[c].created = {}
         /\ call[c].mkdirs = 0
         /\ call[c].probes = 0
         /\ call[c].execs = 0

(* A call with an empty list has failed while the other call is at work. *)
C10_Witness ==
  \E c, d \in Calls :
    /\ audioBuffers[c].given /\ Len(audioBuffers[c].list) = 0
    /\ call[c].pc = "done" /\ call[c].outcome = "NoAudioBuffers"
    /\ call[d].created # {}

(* C11: a call given exactly one buffer writes exactly that buffer's bytes *)
(* to the output, creates no transient file and no temp directory, and     *)
(* neither probes for the tool nor invokes it.                             *)
C11_SingleBufferDirect ==
  \A c \in Calls :
    (audioBuffers[c].given /\ Len(audioBuffers[c].list) = 1
       /\ call[c].pc # "start") =>
      /\ call[c].pc \in {"writeSingle", "done"}
      /\ call[c].created = {}
      /\ call[c].mkdirs = 0
      /\ call[c].probes = 0
      /\ call[c].execs = 0
      /\ call[c].outWritten => call[c].outData = audioBuffers[c].list[1]
      /\ (call[c].pc = "done" /\ ~call[c].envFailed) =>
           call[c].outcome = "returned" /\ call[c].outWritten

C11_Witness ==
  \E c \in Calls :
    /\ audioBuffers[c].given /\ Len(audioBuffers[c].list) = 1
    /\ call[c].pc = "done" /\ call[c].outcome = "returned"
    /\ call[c].outData = audioBuffers[c].list[1]
    /\ call[c].outData # <<>>

(* C12: with the tool unavailable and two or more buffers, a call whose   *)
(* own file operations all succeed raises no error and its output is the  *)
(* bytes of its buffers in input order, nothing added or removed.          *)
C12_FallbackConcatenatesInOrder ==
  \A c \in Calls :
    (audioBuffers[c].given /\ Len(audioBuffers[c].list) >= 2
       /\ ~hasFFmpeg /\ call[c].pc = "done" /\ ~call[c].envFailed) =>
      /\ call[c].outcome = "returned"
      /\ call[c].outWritten
      /\ call[c].outData = Concat(audioBuffers[c].list)

(* C13: within one call the alternate strategy is executed if and only if *)
(* the primary invocation failed, and at most once; a call makes at most   *)
(* two concatenation invocations of the tool.                              *)
C13_AlternateIffPrimaryFailed ==
  \A c \in Calls :
    /\ call[c].primaryRuns <= 1
    /\ call[c].alternateRuns <= 1
    /\ call[c].execs = call[c].primaryRuns + call[c].alternateRuns
    /\ call[c].execs <= 2
    /\ call[c].pc = "alternate" => call[c].primaryFailed
    /\ call[c].alternateRuns = 1 => call[c].primaryFailed
    /\ (call[c].primaryFailed /\ call[c].pc # "alternate") =>
         call[c].alternateRuns = 1
    /\ call[c].primaryFailed => call[c].primaryRuns = 1

C13_Witness ==
  /\ \E c \in Calls :
       /\ call[c].pc = "done" /\ call[c].primaryFailed
       /\ call[c].alternateRuns = 1 /\ call[c].execs = 2
  /\ \E c \in Calls :
       /\ call[c].pc = "done" /\ call[c].primaryRuns = 1
       /\ ~call[c].primaryFailed /\ call[c].alternateRuns = 0

(* C14: with the tool available and two or more buffers, a failed primary *)
(* invocation followed by a successful alternate one makes the call        *)
(* succeed; when both fail the call fails with the concatenation error,    *)
(* which is not the no-input error, and byte concatenation is never tried; *)
(* with the tool missing, no error is caused by the tool.                  *)
C14_ToolFailureOutcomes ==
  \A c \in Calls :
    /\ (hasFFmpeg /\ call[c].pc = "done" /\ call[c].primaryFailed
          /\ ~call[c].alternateFailed) =>
         call[c].outcome = "returned" /\ call[c].outWritten
    /\ call[c].alternateFailed =>
         /\ hasFFmpeg /\ call[c].primaryFailed
         /\ ~call[c].usedFallback /\ call[c].readBufs = <<>>
         /\ call[c].pc \in {"unlinkList", "done"}
         /\ call[c].pc = "done" =>
              /\ call[c].outcome = "FailedToConcatenate"
              /\ call[c].outcome # "NoAudioBuffers"
              /\ call[c].cause = "ffmpeg"
    /\ hasFFmpeg => ~call[c].usedFallback
    /\ ~hasFFmpeg => call[c].execs = 0 /\ call[c].cause # "ffmpeg"

C14_Witness ==
  /\ hasFFmpeg
  /\ \E c \in Calls :
       /\ Len(audioBuffers[c].list) >= 2
       /\ call[c].pc = "done" /\ call[c].primaryFailed
       /\ ~call[c].alternateFailed /\ call[c].outcome = "returned"
  /\ \E c \in Calls :
       /\ Len(audioBuffers[c].list) >= 2
       /\ call[c].pc = "done" /\ call[c].alternateFailed
       /\ call[c].outcome = "FailedToConcatenate"

(* C15: once a call given two or more buffers has finished, by return or  *)
(* by error, none of the transient files it created (chunk files, list    *)
(* file) exists any more.                                                  *)
C15_NoTransientFilesRemain ==
  \A c \in Calls :
    (Len(audioBuffers[c].list) >= 2 /\ call[c].pc = "done") =>
      call[c].created \cap DOMAIN files = {}

(* C16: two invocations that are in flight at the same time never use the *)
(* same transient file path, even when they run in the same millisecond.   *)
C16_TransientPathsDisjoint ==
  \A c, d \in Calls :
    (c # d /\ call[c].pc \notin {"start", "done"}
           /\ call[d].pc \notin {"start", "done"}) =>
      call[c].created \cap call[d].created = {}

C18_SequentialTTS ==
  \A c \in Calls :
    /\ Cardinality(conv[c].inflight) <= 1
    /\ \A k \in conv[c].inflight :
         /\ k \in 1..Len(conv[c].chunks)
         /\ Len(conv[c].buffers) = k - 1
    /\ \A k \in 1..Len(conv[c].buffers) : conv[c].buffers[k] = Speech(c, k)
    /\ Len(conv[c].buffers) <= Len(conv[c].chunks)
    /\ conv[c].ttsCalls =
         Len(conv[c].buffers) + Cardinality(conv[c].inflight)
           + (IF conv[c].ttsFailed THEN 1 ELSE 0)

C18_Witness ==
  \E c \in Calls :
    /\ Len(conv[c].chunks) = 2
    /\ conv[c].pc = "tts"
    /\ conv[c].inflight = {2}
    /\ conv[c].buffers = <<Speech(c, 1)>>

C20_StatusOnlyMovesForward ==
  [][\A c \in Calls :
       (metadata[c] \in Statuses /\ metadata'[c] \in Statuses
          /\ metadata'[c] # metadata[c]) =>
         /\ metadata[c] = "processing"
         /\ metadata'[c] \in {"completed", "failed"}]_vars

(* C21: once the background job of a conversion has ended, as completed   *)
(* or as failed, the job map holds no entry for that conversion.           *)
C21_NoJobEntryAfterEnd ==
  \A c \in Calls :
    (conv[c].pc = "done" \/ conv[c].op = "failAgain") =>
      ~conv[c].job.present

(* C22: at every step of every write, and so at any point where the      *)
(* process may be interrupted, the metadata file holds a complete content: *)
(* it is never a partially written file.                                   *)
C22_MetadataNeverPartial == metadata # Partial

(* C23: validateAudioBuffer returns true only for buffers that are        *)
(* non-empty and of at least the minimum size, and it returns true for     *)
(* every buffer longer than the minimum size, with or without a            *)
(* recognized signature.                                                   *)
C23_ValidOnlyIfPlausibleSize ==
  validation.pc = "done" =>
    /\ validation.result =>
         /\ validation.buffer.given
         /\ validation.buffer.length >= MinAudioSize
    /\ (validation.buffer.given
          /\ validation.buffer.length > MinAudioSize) => validation.result

(* C24: whenever the trimmed text is non-empty and no longer than         *)
(* safeChunkSize, chunk(text) returns the trimmed text as the sole chunk,  *)
(* also when the untrimmed text is longer than safeChunkSize.              *)
C24_TrimmedShortTextSoleChunk ==
  (pc = "done" /\ Len(trim(text)) > 0 /\ Len(trim(text)) <= S) =>
    result = <<trim(text)>>

(* C25: no chunk built by joining paragraphs (a chunk that holds the      *)
(* two-newline separator) is longer than safeChunkSize.                    *)
C25_JoinedParagraphsWithinSafeSize ==
  pc = "done" =>
    \A k \in 1..Len(result) :
      (\E j \in 1..(Len(result[k]) - 1) :
         result[k][j] = "\n" /\ result[k][j + 1] = "\n") =>
        Len(result[k]) <= S

(* C26: a paragraph longer than safeChunkSize is never emitted whole: the *)
(* result splits into the chunks of the paragraphs before it, then the     *)
(* sub-chunks of the paragraph, each no longer than safeChunkSize, then    *)
(* the chunks of the paragraphs after it; no chunk straddles either end of *)
(* the paragraph.                                                          *)
C26_LongParagraphSplitApart ==
  (pc = "done" /\ Len(text) > S) =>
    LET P == ParagraphsOf(text)
        Letters(chunks) == StripSpace(Concat(chunks))
    IN  \A j \in 1..Len(P) :
          Len(P[j]) > S =>
            \E a \in 0..Len(result), b \in 0..Len(result) :
              /\ a < b
              /\ Letters(SubSeq(result, 1, a)) = Letters(SubSeq(P, 1, j - 1))
              /\ Letters(SubSeq(result, a + 1, b)) = StripSpace(P[j])
              /\ Letters(SubSeq(result, b + 1, Len(result))) =
                   Letters(SubSeq(P, j + 1, Len(P)))
              /\ \A k \in (a + 1)..b :
                   Len(result[k]) <= S /\ result[k] # P[j]

(* A long paragraph between two short ones. *)
C26_Witness ==
  /\ pc = "done" /\ Len(text) > S
  /\ LET P == ParagraphsOf(text)
     IN  \E j \in 2..(Len(P) - 1) :
           /\ Len(P[j]) > S
           /\ Len(P[j - 1]) <= S /\ Len(P[j + 1]) <= S
           /\ Len(result) >= 4

(* C27: every chunk chunk(text) returns is non-empty and neither starts   *)
(* nor ends with whitespace, at whichever level it was produced.           *)
C27_ChunksTrimmedNonEmpty ==
  pc = "done" =>
    \A k \in 1..Len(result) :
      /\ Len(result[k]) > 0
      /\ ~IsSpace(result[k][1])
      /\ ~IsSpace(result[k][Len(result[k])])

(* A text with whitespace at both ends whose result holds the slices of a *)
(* word longer than safeChunkSize.                                         *)
C27_Witness ==
  /\ pc = "done" /\ Len(text) > S
  /\ IsSpace(text[1]) /\ IsSpace(text[Len(text)])
  /\ \E w \in Range(WordsOf(text)) : Len(w) > S
  /\ Len(result) >= 2
  /\ \A k \in 1..Len(result) :
       Len(result[k]) > 0 /\ ~IsSpace(result[k][1])
         /\ ~IsSpace(result[k][Len(result[k])])

(* C28: once the storage operations of all conversions have completed,   *)
(* the metadata holds a record for every conversion that was saved, and    *)
(* the record carries the last status written for that conversion.         *)
C28_NoLostStorageUpdate ==
  (\A c \in Calls : conv[c].pc = "done") =>
    \A c \in Calls :
      conv[c].http = 200 =>
        metadata[c] =
          (IF conv[c].op = "complete" THEN "completed" ELSE "failed")

(* C29: every conversion accepted by POST /api/convert eventually has the *)
(* stored status completed or failed and keeps it from then on, also when  *)
(* other conversions run at the same time.  Once every handler has run to  *)
(* its end no step changes the metadata any more, so the stored status of  *)
(* an accepted conversion must be settled by then.                         *)
C29_AcceptedEventuallySettled ==
  (\A d \in Calls : conv[d].pc = "done") =>
    \A c \in Calls :
      conv[c].http = 200 => metadata[c] \in {"completed", "failed"}

(* C30: retry(fn, attempts) invokes fn at most attempts times; it returns *)
(* the result of the first successful invocation and does not invoke fn    *)
(* again; an error with status 401 or 403 is thrown at once with no        *)
(* further invocation; otherwise the last error is rethrown after attempts *)
(* invocations; the wait before attempt k+1 is retryDelay * 2^(k-1) and    *)
(* there is no wait after the final failure.                               *)
C30_RetryContract ==
  LET n == Len(retry.invoked)
      Failed(k) == retry.invoked[k] \in ErrorStatuses
      Auth(k) == retry.invoked[k] \in {"401", "403"}
  IN /\ n <= retry.attempts
     /\ \A k \in 1..n : (retry.invoked[k] = "ok" \/ Auth(k)) => k = n
     /\ \A k \in 1..Len(retry.waits) :
          retry.waits[k] = retry.retryDelay * Pow(2, k - 1)
     /\ retry.pc = "calling" => Len(retry.waits) = n - 1
     /\ retry.pc = "waiting" => Len(retry.waits) = n /\ n < retry.attempts
     /\ retry.pc = "done" =>
          /\ Len(retry.waits) = IF n = 0 THEN 0 ELSE n - 1
          /\ IF n > 0 /\ retry.invoked[n] = "ok"
             THEN retry.outcome = "returned" /\ retry.value = n
             ELSE /\ retry.outcome = "threw"
                  /\ retry.thrown = retry.lastError
                  /\ n > 0 => /\ retry.thrown.attempt = n
                              /\ retry.thrown.status = retry.invoked[n]
                              /\ ~Auth(n) => n = retry.attempts

(* retry gave up after three failures, having waited after the first two   *)
(* only.                                                                   *)
C30_Witness ==
  /\ retry.pc = "done"
  /\ retry.attempts = 3
  /\ retry.invoked = <<"500", "none", "500">>
  /\ retry.waits = <<retry.retryDelay, 2 * retry.retryDelay>>
  /\ retry.outcome = "threw"
  /\ retry.thrown = [status |-> "500", attempt |-> 3]

====
